---- MODULE Spec2Model ----
(***************************************************************************)
(* Model of the Aries JSTOR gateway (src/main.go, first revision in the    *)
(* file, lines 1-259; src/models.go for the JSON shapes).                  *)
(*                                                                         *)
(* The process logs into JSTOR at startup, then serves requests.  Every    *)
(* request handler runs on its own goroutine and blocks in the HTTP        *)
(* client; an action of the model is the code a goroutine runs between two *)
(* blocking points (client.Do, client.PostForm, or the return of           *)
(* getAPIResponse to the handler).  The upstream is the environment: it    *)
(* chooses every status, body and cookie set.                              *)
(***************************************************************************)
EXTENDS Integers, Sequences, FiniteSets, TLC

VARIABLES
    mainPc,        \* position of main(): "login", "serving" or "exited"
    loginCookies,  \* the global []*http.Cookie (main.go:28), as a reader sees it
    backing,       \* the array the slice header of loginCookies points to
    lookup,        \* per request: the handler's frame (ariesLookup / healthCheckHandler)
    call,          \* per request: the getAPIResponse invocation made by the handler
    response,      \* per request: what the handler wrote to the gin context
    hist,          \* per request: history of the handler (what it asked, what it was told)
    pub            \* per request: the cross-lookup in the Public system (spec 4.5 e)

vars == <<mainPc, loginCookies, backing, lookup, call, response, hist, pub>>

----------------------------------------------------------------------------
(* Bounds of the model *)

NumReqs == 2      \* request slots
MaxCount == 3     \* per-call counters and status history saturate here
RaceLogins == 2   \* logins per call the upstream provokes when requests run concurrently

Reqs == 1..NumReqs

----------------------------------------------------------------------------
(* Data the upstream can produce *)

\* Cookie lists a login response may carry (loginResp.Cookies()).
CookieSets == {<<>>, <<"s1">>, <<"s2", "t2">>}

\* HTTP statuses the upstream answers with.
Statuses == {200, 201, 401, 403, 500}

\* Login responses: a status, which jstorLogin never reads, and the cookies.
LoginResponses ==
    {[status |-> 200, cookies |-> <<"s1">>], [status |-> 200, cookies |-> <<"s2", "t2">>],
     [status |-> 401, cookies |-> <<>>], [status |-> 401, cookies |-> <<"s1">>]}

PassedIDs == {"7", "230"}

NoAsset == [ID |-> 0, Filename |-> "", RepresentationID |-> ""]
Asset1 == [ID |-> 7, Filename |-> "7_0004.tif", RepresentationID |-> "r1"]
Asset2 == [ID |-> 230, Filename |-> "230.tif", RepresentationID |-> "r2"]

Totals == {-1, 0, 1, 2}
AssetLists == {<<>>, <<Asset1>>, <<Asset2, Asset1>>}

\* A response body: its raw text class and, when it is JSON, the fields the
\* program decodes (absent fields decode to Go zero values).
Doc(raw, valid, total, assets, url, iiif) ==
    [raw |-> raw, valid |-> valid, Total |-> total, Assets |-> assets,
     URL |-> url, IIIF |-> iiif]

EmptyStr == Doc("", FALSE, 0, <<>>, "", "")
BadDoc == Doc("<html>", FALSE, 0, <<>>, "", "")
EmptyObj == Doc("{}", TRUE, 0, <<>>, "", "")

SearchDocs ==
    {Doc("json", TRUE, t, a, "", "") : t \in Totals, a \in AssetLists} \cup {BadDoc}

RepDocs ==
    {Doc("json", TRUE, 0, <<>>, u, i) :
        u \in {"", "https://img/7"}, i \in {"", "https://iiif/7"}} \cup {BadDoc}

OtherDocs == {BadDoc, EmptyObj}

\* Bodies the upstream may send for a request of the given purpose and status.
Bodies(purpose, status) ==
    IF status = 200 /\ purpose = "search" THEN SearchDocs
    ELSE IF status = 200 /\ purpose = "enrich" THEN RepDocs
    ELSE OtherDocs

----------------------------------------------------------------------------
(* Pure helpers of the program *)

Digits == <<"0", "1", "2", "3", "4", "5", "6", "7", "8", "9">>

RECURSIVE Itoa(_)
\* strconv.Itoa
Itoa(n) ==
    IF n < 0 THEN "-" \o Itoa(-n)
    ELSE IF n < 10 THEN Digits[n + 1]
    ELSE Itoa(n \div 10) \o Digits[(n % 10) + 1]

NoFilter == [type |-> "", comparison |-> "", value |-> "", field |-> "", fieldName |-> ""]

idF(passedID) ==
    [type |-> "numeric", comparison |-> "eq", value |-> passedID,
     field |-> "id", fieldName |-> "SSID"]

ifnF(passedID) ==
    [type |-> "string", comparison |-> "", value |-> passedID \o "*",
     field |-> "filename", fieldName |-> "Filename"]

\* The filters of a lookup, in the order the loop visits them.
filterTerms(passedID) == <<idF(passedID), ifnF(passedID)>>

SearchURL(filter) ==
    [path |-> "/projects/assets", limit |-> 1, filter |-> filter, id |-> 0, dc |-> ""]

HealthURL ==
    [path |-> "/projects/assets", limit |-> 0, filter |-> NoFilter, id |-> 0, dc |-> ""]

RepURL(hit) ==
    [path |-> "/assets/representation/details", limit |-> 0, filter |-> NoFilter,
     id |-> hit.ID, dc |-> hit.RepresentationID]

\* json.Unmarshal into jstorResp / jstorResource
UnmarshalResp(body) ==
    [err |-> ~body.valid, Total |-> body.Total, Assets |-> body.Assets]

UnmarshalResource(body) ==
    [err |-> ~body.valid, URL |-> body.URL, IIIF |-> body.IIIF]

EmptyAries == [Identifiers |-> <<>>, ServiceURL |-> <<>>, AdminURL |-> <<>>]

Bump(n) == IF n < MaxCount THEN n + 1 ELSE n

Record(seq, x) == IF Len(seq) < MaxCount THEN Append(seq, x) ELSE seq

----------------------------------------------------------------------------
(* Decisions of the code, one operator per test *)

Forbidden_401(status) == status \in {401, 403}

Forbidden_non200(status) == status # 200

Forbidden_5xx(status) == status \in {403, 500}

\* main.go:178
Forbidden(status) == status = 403

StatusOK_2xx(status) == status \in {200, 201}

\* main.go:189 (negated)
StatusOK(status) == status = 200

SkipTotal_onlyZero(total) == total = 0

\* main.go:116-123: the totals for which the loop continues
SkipTotal(total) == total = 0 \/ total > 1

\* main.go:162-164: the cookies put on the request
AttachCookies(store) == store

LoginStore_keep(old, got) == old

LoginStore_merge(old, got) == old \o got

\* main.go:214: the new value of loginCookies
LoginStore(old, got) == got

\* main.go:107,114,117,122: continue, the loop goes to the next filter
AfterSkip(idx, n) == idx + 1

AfterMatch_continue(idx, n) == idx + 1

\* main.go:142: break, no filter is left
AfterMatch(idx, n) == n + 1

CountHit_forgotten(hits) == hits

\* main.go:124
CountHit(hits) == hits + 1

Listening_early(pc) == pc # "exited"

\* main.go:237-258: router.Run is reached only after jstorLogin returned nil
Listening(pc) == pc = "serving"

NotFound_never(hits) == FALSE

\* main.go:144
NotFound(hits) == hits = 0

----------------------------------------------------------------------------
(* Frames *)

NoURL == [path |-> "", limit |-> 0, filter |-> NoFilter, id |-> 0, dc |-> ""]

Err(kind, msg) == [kind |-> kind, msg |-> msg]

NoErr == Err("none", EmptyStr)

NoRet == [str |-> EmptyStr, err |-> NoErr]

NoCall ==
    [purpose |-> "none", tgtURL |-> NoURL, retry |-> FALSE, reqCookies |-> <<>>,
     sends |-> 0, logins |-> 0, statuses |-> <<>>, gotCookies |-> <<>>,
     loginStatus |-> 0, entryCookies |-> <<>>, rcvd |-> EmptyStr, ret |-> NoRet]

\* The handler calls getAPIResponse(url, true): the request is built with the
\* cookies of the store and handed to client.Do.
NewCall(purpose, url, store) ==
    [purpose |-> purpose, tgtURL |-> url, retry |-> TRUE,
     reqCookies |-> AttachCookies(store),
     sends |-> 1, logins |-> 0, statuses |-> <<>>, gotCookies |-> <<>>,
     loginStatus |-> 0, entryCookies |-> store, rcvd |-> EmptyStr, ret |-> NoRet]

IdleFrame ==
    [pc |-> "idle", kind |-> "none", passedID |-> "", filter |-> 0, hits |-> 0,
     out |-> EmptyAries]

NoResponse == [status |-> 0, json |-> EmptyAries, text |-> "", hc |-> ""]

NoHist == [requested |-> <<>>, seen |-> <<>>]

\* What a search told the handler: whether it got a parsed answer, and the answer.
Seen(ok, total, assets) == [ok |-> ok, Total |-> total, Assets |-> assets]

\* The Public system's answer to a search, as the handler gets it: an error
\* (transport, authorization, rejection, unparsable body) or the parsed
\* artstorResp (models.go:31-38) with the artstorid of each result.
PublicAnswer(err, results) == [err |-> err, Total |-> Len(results), Results |-> results]

NoPublicAnswer == PublicAnswer(TRUE, <<>>)

PublicAnswers ==
    {NoPublicAnswer} \cup {PublicAnswer(FALSE, rs) : rs \in {<<>>, <<"AS999">>, <<"AS999", "AS1">>}}

NoPub == [marker |-> "unread", queried |-> FALSE, answer |-> NoPublicAnswer, AccessURL |-> <<>>]

\* Requests are served one at a time: r starts only when no other is in flight.
Alone(r) == \A q \in Reqs \ {r} : lookup[q].pc = "idle"

----------------------------------------------------------------------------
(* main *)

Init ==
    /\ mainPc = "login"
    /\ loginCookies = <<>>
    /\ backing = <<>>
    /\ lookup = [r \in Reqs |-> IdleFrame]
    /\ call = [r \in Reqs |-> NoCall]
    /\ response = [r \in Reqs |-> NoResponse]
    /\ hist = [r \in Reqs |-> NoHist]
    /\ pub = [r \in Reqs |-> NoPub]

\* The startup login completes: the cookies are stored and the router runs.
MainLoginDone(cs) ==
    /\ mainPc = "login"
    /\ loginCookies' = LoginStore(loginCookies, cs)
    /\ backing' = loginCookies'
    /\ mainPc' = "serving"
    /\ UNCHANGED <<lookup, call, response, hist, pub>>

\* The startup login fails at transport level: log.Fatalf ends the process.
MainLoginFailed ==
    /\ mainPc = "login"
    /\ mainPc' = "exited"
    /\ UNCHANGED <<loginCookies, backing, lookup, call, response, hist, pub>>

----------------------------------------------------------------------------
(* getAPIResponse and jstorLogin *)

DoErrorReturn_swallow(err) == [str |-> EmptyStr, err |-> NoErr]

\* main.go:171-174: what getAPIResponse returns when client.Do gave err.
DoErrorReturn(err) == [str |-> EmptyStr, err |-> err]

\* client.Do returns an error: getAPIResponse returns ("", err).
DoFailed(r) ==
    /\ lookup[r].pc = "get"
    /\ call' = [call EXCEPT ![r].ret = DoErrorReturn(Err("transport", EmptyStr))]
    /\ lookup' = [lookup EXCEPT ![r].pc = "ret"]
    /\ UNCHANGED <<mainPc, loginCookies, backing, response, hist, pub>>

\* client.Do returns a response.  On 403 jstorLogin is called (its POST is
\* issued); otherwise the body is read and returned, as an error unless 200.
DoAnswered(r, status, body) ==
    /\ lookup[r].pc = "get"
    /\ body \in Bodies(call[r].purpose, status)
    /\ IF Forbidden(status)
       THEN /\ call' = [call EXCEPT ![r].statuses = Record(@, status),
                                    ![r].rcvd = body,
                                    ![r].logins = Bump(@)]
            /\ lookup' = [lookup EXCEPT ![r].pc = "login"]
       ELSE /\ call' = [call EXCEPT ![r].statuses = Record(@, status),
                                    ![r].rcvd = body,
                                    ![r].ret =
                                        IF StatusOK(status)
                                        THEN [str |-> body, err |-> NoErr]
                                        ELSE [str |-> EmptyStr, err |-> Err("http", body)]]
            /\ lookup' = [lookup EXCEPT ![r].pc = "ret"]
    /\ UNCHANGED <<mainPc, loginCookies, backing, response, hist, pub>>

\* The login POST fails at transport level: getAPIResponse returns ("", lerr).
LoginFailed(r) ==
    /\ lookup[r].pc = "login"
    /\ call' = [call EXCEPT ![r].ret = [str |-> EmptyStr, err |-> Err("login", EmptyStr)]]
    /\ lookup' = [lookup EXCEPT ![r].pc = "ret"]
    /\ UNCHANGED <<mainPc, loginCookies, backing, response, hist, pub>>

\* The login POST is answered, with any status: the response cookies replace
\* the store, and getAPIResponse(tgtURL, false) builds and sends the request
\* again.
LoginAnswered(r, cs, status) ==
    /\ lookup[r].pc = "login"
    /\ loginCookies' = LoginStore(loginCookies, cs)
    /\ backing' = loginCookies'
    /\ call' = [call EXCEPT ![r].gotCookies = cs,
                            ![r].loginStatus = status,
                            ![r].retry = FALSE,
                            ![r].reqCookies = AttachCookies(loginCookies'),
                            ![r].sends = Bump(@)]
    /\ lookup' = [lookup EXCEPT ![r].pc = "get"]
    /\ UNCHANGED <<mainPc, response, hist, pub>>

----------------------------------------------------------------------------
(* ariesLookup *)

\* The handler starts: it builds both filters, enters the loop and calls
\* getAPIResponse for the first of them.
ariesLookup(r, id) ==
    /\ Listening(mainPc)
    /\ lookup[r].pc = "idle"
    /\ LET url == SearchURL(filterTerms(id)[1]) IN
        /\ lookup' = [lookup EXCEPT ![r] =
                        [pc |-> "get", kind |-> "lookup", passedID |-> id,
                         filter |-> 1, hits |-> 0, out |-> EmptyAries]]
        /\ call' = [call EXCEPT ![r] = NewCall("search", url, loginCookies)]
        /\ hist' = [hist EXCEPT ![r] = [requested |-> <<url>>, seen |-> <<>>]]
    /\ response' = [response EXCEPT ![r] = NoResponse]
    /\ UNCHANGED <<mainPc, loginCookies, backing, pub>>

\* The response written once the loop is left (main.go:144-148).
Reply(passedID, hits, out) ==
    IF NotFound(hits)
    THEN [status |-> 404, json |-> EmptyAries, text |-> passedID \o " not found", hc |-> ""]
    ELSE [status |-> 200, json |-> out, text |-> "", hc |-> ""]

\* The loop goes on with filter number nxt, if there is one, with the given
\* hits, descriptor and history; otherwise the handler replies.
LoopNext(r, nxt, hits, out, h) ==
    LET terms == filterTerms(lookup[r].passedID) IN
    IF nxt <= Len(terms)
    THEN LET url == SearchURL(terms[nxt]) IN
         /\ lookup' = [lookup EXCEPT ![r].pc = "get", ![r].filter = nxt,
                                     ![r].hits = hits, ![r].out = out]
         /\ call' = [call EXCEPT ![r] = NewCall("search", url, loginCookies)]
         /\ hist' = [hist EXCEPT ![r] = [h EXCEPT !.requested = Append(@, url)]]
         /\ UNCHANGED response
    ELSE /\ lookup' = [lookup EXCEPT ![r].pc = "done", ![r].hits = hits, ![r].out = out]
         /\ response' = [response EXCEPT ![r] = Reply(lookup[r].passedID, hits, out)]
         /\ hist' = [hist EXCEPT ![r] = h]
         /\ UNCHANGED call

AtReturn(r, purpose) ==
    /\ lookup[r].pc = "ret"
    /\ call[r].purpose = purpose

NumFilters(r) == Len(filterTerms(lookup[r].passedID))

\* The search call returned an error, or its body does not parse: continue.
SearchFailed(r) ==
    /\ AtReturn(r, "search")
    /\ call[r].ret.err.kind # "none" \/ UnmarshalResp(call[r].ret.str).err
    /\ LoopNext(r, AfterSkip(lookup[r].filter, NumFilters(r)), lookup[r].hits, lookup[r].out,
                [hist[r] EXCEPT !.seen = Append(@, Seen(FALSE, 0, <<>>))])
    /\ UNCHANGED <<mainPc, loginCookies, backing, pub>>

\* The search answered with a total of 0 or of more than 1: continue.
SearchSkipped(r) ==
    /\ AtReturn(r, "search")
    /\ call[r].ret.err.kind = "none"
    /\ LET resp == UnmarshalResp(call[r].ret.str) IN
        /\ ~resp.err
        /\ SkipTotal(resp.Total)
        /\ LoopNext(r, AfterSkip(lookup[r].filter, NumFilters(r)), lookup[r].hits,
                    lookup[r].out,
                    [hist[r] EXCEPT !.seen = Append(@, Seen(TRUE, resp.Total, resp.Assets))])
    /\ UNCHANGED <<mainPc, loginCookies, backing, pub>>

\* The match branch: hits is counted, the first asset gives the identifiers,
\* and getAPIResponse is called for the representation details.
SearchMatched(r) ==
    /\ AtReturn(r, "search")
    /\ call[r].ret.err.kind = "none"
    /\ LET resp == UnmarshalResp(call[r].ret.str) IN
        /\ ~resp.err
        /\ ~SkipTotal(resp.Total)
        /\ Len(resp.Assets) > 0
        /\ LET hit == resp.Assets[1]
               url == RepURL(hit)
           IN
            /\ lookup' = [lookup EXCEPT
                            ![r].pc = "get",
                            ![r].hits = CountHit(@),
                            ![r].out.Identifiers = @ \o <<Itoa(hit.ID), hit.Filename>>]
            /\ call' = [call EXCEPT ![r] = NewCall("enrich", url, loginCookies)]
            /\ hist' = [hist EXCEPT
                            ![r].requested = Append(@, url),
                            ![r].seen = Append(@, Seen(TRUE, resp.Total, resp.Assets))]
    /\ UNCHANGED <<mainPc, loginCookies, backing, response, pub>>

\* The match branch with an empty asset list: resp.Assets[0] panics (index out
\* of range) after hits++; the Recovery middleware of gin.Default() answers 500.
SearchPanicked(r) ==
    /\ AtReturn(r, "search")
    /\ call[r].ret.err.kind = "none"
    /\ LET resp == UnmarshalResp(call[r].ret.str) IN
        /\ ~resp.err
        /\ ~SkipTotal(resp.Total)
        /\ Len(resp.Assets) = 0
        /\ lookup' = [lookup EXCEPT ![r].pc = "done", ![r].hits = CountHit(@)]
        /\ response' = [response EXCEPT ![r] =
                            [status |-> 500, json |-> EmptyAries, text |-> "", hc |-> ""]]
        /\ hist' = [hist EXCEPT
                        ![r].seen = Append(@, Seen(TRUE, resp.Total, resp.Assets))]
    /\ UNCHANGED <<mainPc, loginCookies, backing, call, pub>>

ServiceURLs_swapped(ret) ==
    IF ret.err.kind # "none" \/ UnmarshalResource(ret.str).err THEN <<>>
    ELSE (IF UnmarshalResource(ret.str).IIIF # ""
          THEN <<[URL |-> UnmarshalResource(ret.str).IIIF, Protocol |-> "iiif-presentation"]>>
          ELSE <<>>)
         \o
         (IF UnmarshalResource(ret.str).URL # ""
          THEN <<[URL |-> UnmarshalResource(ret.str).URL, Protocol |-> "image-download"]>>
          ELSE <<>>)

\* The service URLs a representation answer adds (main.go:130-141).
ServiceURLs(ret) ==
    IF ret.err.kind # "none" THEN <<>>
    ELSE LET repInfo == UnmarshalResource(ret.str) IN
         IF repInfo.err THEN <<>>
         ELSE (IF repInfo.URL # ""
               THEN <<[URL |-> repInfo.URL, Protocol |-> "image-download"]>>
               ELSE <<>>)
              \o
              (IF repInfo.IIIF # ""
               THEN <<[URL |-> repInfo.IIIF, Protocol |-> "iiif-presentation"]>>
               ELSE <<>>)

\* The representation call returned: the service URLs are added when it
\* succeeded and parsed, and the loop is left.
EnrichReturned(r) ==
    /\ AtReturn(r, "enrich")
    /\ LoopNext(r, AfterMatch(lookup[r].filter, NumFilters(r)), lookup[r].hits,
                [lookup[r].out EXCEPT !.ServiceURL = @ \o ServiceURLs(call[r].ret)],
                hist[r])
    /\ UNCHANGED <<mainPc, loginCookies, backing, pub>>

----------------------------------------------------------------------------
(* healthCheckHandler *)

healthCheckHandler(r) ==
    /\ Listening(mainPc)
    /\ lookup[r].pc = "idle"
    /\ lookup' = [lookup EXCEPT ![r] = [IdleFrame EXCEPT !.pc = "get", !.kind = "health"]]
    /\ call' = [call EXCEPT ![r] = NewCall("health", HealthURL, loginCookies)]
    /\ hist' = [hist EXCEPT ![r] = [requested |-> <<HealthURL>>, seen |-> <<>>]]
    /\ response' = [response EXCEPT ![r] = NoResponse]
    /\ UNCHANGED <<mainPc, loginCookies, backing, pub>>

\* The ping returned: the handler always answers 200 with the two flags.
HealthReturned(r) ==
    /\ AtReturn(r, "health")
    /\ lookup' = [lookup EXCEPT ![r].pc = "done"]
    /\ response' = [response EXCEPT ![r] =
                        [status |-> 200, json |-> EmptyAries, text |-> "",
                         hc |-> IF call[r].ret.err.kind # "none" THEN "false" ELSE "true"]]
    /\ UNCHANGED <<mainPc, loginCookies, backing, call, hist, pub>>

\* The response has been sent and the goroutine ends.
Close(r) ==
    /\ lookup[r].pc = "done"
    /\ lookup' = [lookup EXCEPT ![r] = IdleFrame]
    /\ call' = [call EXCEPT ![r] = NoCall]
    /\ response' = [response EXCEPT ![r] = NoResponse]
    /\ hist' = [hist EXCEPT ![r] = NoHist]
    /\ pub' = [pub EXCEPT ![r] = NoPub]
    /\ UNCHANGED <<mainPc, loginCookies, backing>>

----------------------------------------------------------------------------
(* Specification: requests served one at a time *)

Next ==
    \/ \E cs \in CookieSets : MainLoginDone(cs)
    \/ MainLoginFailed
    \/ \E r \in Reqs, id \in PassedIDs : Alone(r) /\ ariesLookup(r, id)
    \/ \E r \in Reqs : Alone(r) /\ healthCheckHandler(r)
    \/ \E r \in Reqs : DoFailed(r)
    \/ \E r \in Reqs, status \in Statuses, body \in SearchDocs \cup RepDocs \cup OtherDocs :
            DoAnswered(r, status, body)
    \/ \E r \in Reqs : LoginFailed(r)
    \/ \E r \in Reqs, resp \in LoginResponses :
            LoginAnswered(r, resp.cookies, resp.status)
    \/ \E r \in Reqs : SearchFailed(r)
    \/ \E r \in Reqs : SearchSkipped(r)
    \/ \E r \in Reqs : SearchMatched(r)
    \/ \E r \in Reqs : SearchPanicked(r)
    \/ \E r \in Reqs : EnrichReturned(r)
    \/ \E r \in Reqs : HealthReturned(r)
    \/ \E r \in Reqs : Close(r)

Spec == Init /\ [][Next]_vars

\* The steps of request r once it has started: the completions of its HTTP
\* requests and the handler's own steps.
RequestStep(r) ==
    \/ DoFailed(r)
    \/ \E status \in Statuses, body \in SearchDocs \cup RepDocs \cup OtherDocs :
            DoAnswered(r, status, body)
    \/ LoginFailed(r)
    \/ \E resp \in LoginResponses : LoginAnswered(r, resp.cookies, resp.status)
    \/ SearchFailed(r)
    \/ SearchSkipped(r)
    \/ SearchMatched(r)
    \/ SearchPanicked(r)
    \/ EnrichReturned(r)
    \/ HealthReturned(r)

\* Every HTTP request completes or times out (both clients have a 10 second
\* timeout) and the goroutine of a request keeps running: a started request
\* always takes its next step.  What the upstream answers is not constrained.
LiveSpec == Init /\ [][Next]_vars /\ \A r \in Reqs : WF_vars(RequestStep(r))

----------------------------------------------------------------------------
(* Specification: health checks served concurrently.                      *)
(*                                                                         *)
(* gin runs every handler on its own goroutine and loginCookies is written *)
(* without any lock.  A slice assignment stores the words of the slice     *)
(* header one by one, so two goroutines in jstorLogin race word by word;   *)
(* both orders of the two stores are allowed.  A reader takes the header   *)
(* as it stands.  The upstream here answers 200 or 403 only, and 403 to at *)
(* most RaceLogins attempts of a call.                                     *)

\* What a reader of a header with this array and this length sees; an element
\* past the end of the array is whatever memory follows it.
View(array, len) ==
    [i \in 1..len |-> IF i <= Len(array) THEN array[i] ELSE "?"]

\* The login POST is answered and the first word of the header is stored.
LoginStoreFirst(r, cs, word) ==
    /\ lookup[r].pc = "login"
    /\ IF word = "ptr"
       THEN /\ backing' = cs
            /\ loginCookies' = View(cs, Len(loginCookies))
            /\ lookup' = [lookup EXCEPT ![r].pc = "store_len"]
       ELSE /\ backing' = backing
            /\ loginCookies' = View(backing, Len(cs))
            /\ lookup' = [lookup EXCEPT ![r].pc = "store_ptr"]
    /\ call' = [call EXCEPT ![r].gotCookies = cs]
    /\ UNCHANGED <<mainPc, response, hist, pub>>

\* The other word is stored, jstorLogin returns nil, and
\* getAPIResponse(tgtURL, false) builds and sends the request again.
LoginStoreSecond(r) ==
    /\ lookup[r].pc \in {"store_len", "store_ptr"}
    /\ IF lookup[r].pc = "store_len"
       THEN /\ backing' = backing
            /\ loginCookies' = View(backing, Len(call[r].gotCookies))
       ELSE /\ backing' = call[r].gotCookies
            /\ loginCookies' = View(call[r].gotCookies, Len(loginCookies))
    /\ call' = [call EXCEPT ![r].retry = FALSE,
                            ![r].reqCookies = AttachCookies(loginCookies'),
                            ![r].sends = Bump(@)]
    /\ lookup' = [lookup EXCEPT ![r].pc = "get"]
    /\ UNCHANGED <<mainPc, response, hist, pub>>

ConcNext ==
    \/ \E cs \in CookieSets : MainLoginDone(cs)
    \/ MainLoginFailed
    \/ \E r \in Reqs : healthCheckHandler(r)
    \/ \E r \in Reqs : DoFailed(r)
    \/ \E r \in Reqs, status \in {200, 403} :
            /\ status = 403 => call[r].logins < RaceLogins
            /\ DoAnswered(r, status, EmptyObj)
    \/ \E r \in Reqs : LoginFailed(r)
    \/ \E r \in Reqs, cs \in CookieSets \ {<<>>}, word \in {"ptr", "len"} :
            LoginStoreFirst(r, cs, word)
    \/ \E r \in Reqs : LoginStoreSecond(r)
    \/ \E r \in Reqs : HealthReturned(r)
    \/ \E r \in Reqs : Close(r)

ConcSpec == Init /\ [][ConcNext]_vars

----------------------------------------------------------------------------
(* Specification: the lookup with the cross-lookup in the Public system.   *)
(*                                                                         *)
(* src/main.go holds no code for it (src/models.go declares artstorResp);  *)
(* the step is modelled from spec 4.5 e: after the enrichment, the raw     *)
(* search response is inspected for the publication marker; when present,  *)
(* the Public system is searched by internal ID, and exactly one result    *)
(* adds the public access URL.  Any failure there adds nothing.  The       *)
(* Catalog side is the code's, with a narrower upstream (one identifier,   *)
(* statuses 200, 403 and 500, one login response).                         *)

PublicBase == "https://public"

\* base-public-URL + asset-view path + the resolved public ID
AccessURLFor(artstorid) == PublicBase \o "/#/asset/" \o artstorid

OneResult_atLeast(answer) == ~answer.err /\ answer.Total >= 1

\* spec 4.5 e: "on exactly one result"
OneResult(answer) == ~answer.err /\ answer.Total = 1

\* The access URLs a Public answer adds.
AccessURLs(answer) ==
    IF OneResult(answer) THEN <<AccessURLFor(answer.Results[1])>> ELSE <<>>

\* The representation call returned: the service URLs are added as in
\* EnrichReturned; then the search response is inspected for the publication
\* marker (published: whether the text holds it) and, if it does, the Public
\* search is issued; if not, the loop is left.
EnrichReturnedPublic(r, published) ==
    /\ AtReturn(r, "enrich")
    /\ IF published
       THEN /\ lookup' = [lookup EXCEPT
                            ![r].pc = "public",
                            ![r].out.ServiceURL = @ \o ServiceURLs(call[r].ret)]
            /\ pub' = [pub EXCEPT ![r].marker = "yes", ![r].queried = TRUE]
            /\ UNCHANGED <<call, response, hist>>
       ELSE /\ LoopNext(r, AfterMatch(lookup[r].filter, NumFilters(r)), lookup[r].hits,
                        [lookup[r].out EXCEPT !.ServiceURL = @ \o ServiceURLs(call[r].ret)],
                        hist[r])
            /\ pub' = [pub EXCEPT ![r].marker = "no"]
    /\ UNCHANGED <<mainPc, loginCookies, backing>>

\* The Public search returned: the access URL is added on exactly one
\* result, and the loop is left.
PublicReturned(r, answer) ==
    /\ lookup[r].pc = "public"
    /\ pub' = [pub EXCEPT ![r].answer = answer,
                          ![r].AccessURL = @ \o AccessURLs(answer)]
    /\ LoopNext(r, AfterMatch(lookup[r].filter, NumFilters(r)), lookup[r].hits,
                lookup[r].out, hist[r])
    /\ UNCHANGED <<mainPc, loginCookies, backing>>

PublicNext ==
    \/ \E cs \in CookieSets : MainLoginDone(cs)
    \/ MainLoginFailed
    \/ \E r \in Reqs : Alone(r) /\ ariesLookup(r, "7")
    \/ \E r \in Reqs : DoFailed(r)
    \/ \E r \in Reqs, status \in {200, 403, 500}, body \in SearchDocs \cup RepDocs \cup OtherDocs :
            DoAnswered(r, status, body)
    \/ \E r \in Reqs : LoginFailed(r)
    \/ \E r \in Reqs : LoginAnswered(r, <<"s1">>, 200)
    \/ \E r \in Reqs : SearchFailed(r)
    \/ \E r \in Reqs : SearchSkipped(r)
    \/ \E r \in Reqs : SearchMatched(r)
    \/ \E r \in Reqs : SearchPanicked(r)
    \/ \E r \in Reqs, published \in BOOLEAN : EnrichReturnedPublic(r, published)
    \/ \E r \in Reqs, answer \in PublicAnswers : PublicReturned(r, answer)
    \/ \E r \in Reqs : Close(r)

PublicSpec == Init /\ [][PublicNext]_vars

----------------------------------------------------------------------------
(* Vocabulary of the properties *)

\* The search requests a handler has asked getAPIResponse for, in order.
Searches(r) == SelectSeq(hist[r].requested, LAMBDA u : u.limit = 1 /\ u.filter # NoFilter)

\* The representation (enrichment) requests a handler has asked for.
Enrichments(r) == SelectSeq(hist[r].requested, LAMBDA u : u.path = RepURL(NoAsset).path)

\* The search answered, parsed, with total = 1 and an asset to read.
OneAsset(s) == s.ok /\ s.Total = 1 /\ s.Assets # <<>>

\* The call in progress (or last completed) of r began with these statuses.
Began(r, prefix) ==
    /\ Len(call[r].statuses) >= Len(prefix)
    /\ SubSeq(call[r].statuses, 1, Len(prefix)) = prefix

Returned(r) == lookup[r].pc \in {"ret", "done"}

----------------------------------------------------------------------------
(* C1..C10 *)

\* C1: one invocation of getAPIResponse by a handler performs at most one
\* login and sends the target request at most twice, whatever the upstream
\* answers.  (The code ignores its retry flag: a 403 on the retry logs in and
\* sends again.)
C1_RetryBudget ==
    \A r \in Reqs : call[r].logins <= 1 /\ call[r].sends <= 2

\* C2: a call answered 403 and then 200 returns the second body as success,
\* has performed exactly one login and two sends, and its retry carried the
\* cookies of that login's response.
C2_RetrySucceeds ==
    \A r \in Reqs :
        call[r].statuses = <<403, 200>> =>
            /\ Returned(r)
            /\ call[r].ret = [str |-> call[r].rcvd, err |-> NoErr]
            /\ call[r].logins = 1
            /\ call[r].sends = 2
            /\ call[r].reqCookies = call[r].gotCookies

C2_Witness ==
    \E r \in Reqs :
        /\ call[r].statuses = <<403, 200>>
        /\ call[r].purpose = "search"
        /\ call[r].gotCookies # call[r].entryCookies
        /\ call[r].reqCookies = <<"s2", "t2">>
        /\ call[r].ret.str.Total = 1
        /\ lookup[r].pc = "ret"

\* C3: a search answered 403 and 403 again on the retry has returned a failure
\* to the handler after one login and two sends.  (The code logs in a second
\* time and sends a third request.)
C3_SecondForbiddenFails ==
    \A r \in Reqs :
        Began(r, <<403, 403>>) =>
            /\ Returned(r)
            /\ call[r].ret.err.kind # "none"
            /\ call[r].logins = 1
            /\ call[r].sends = 2

\* C4: the searches of a lookup are issued in the order filter A (field id),
\* filter B (field filename), and once filter A's search has yielded one asset
\* no search for filter B is issued.
C4_FilterOrder ==
    \A r \in Reqs :
        lookup[r].kind = "lookup" =>
            LET fields == [i \in 1..Len(Searches(r)) |-> Searches(r)[i].filter.field] IN
            /\ fields \in {<<"id">>, <<"id", "filename">>}
            /\ \A i \in 1..Len(Searches(r)) :
                    Searches(r)[i].filter.value \in
                        {lookup[r].passedID, lookup[r].passedID \o "*"}
            /\ (hist[r].seen # <<>> /\ OneAsset(hist[r].seen[1])) => Len(Searches(r)) = 1

C4_Witness ==
    \E r \in Reqs :
        /\ lookup[r].pc = "done"
        /\ hist[r].seen # <<>>
        /\ OneAsset(hist[r].seen[1])
        /\ response[r].status = 200
        /\ Len(hist[r].requested) = 2

\* C5: when both searches answer with total = 0 the lookup ends with 404 and
\* the not-found text, no descriptor, and no enrichment request was issued.
C5_BothZeroNotFound ==
    \A r \in Reqs :
        (/\ lookup[r].kind = "lookup"
         /\ Len(hist[r].seen) = 2
         /\ \A i \in 1..2 : hist[r].seen[i].ok /\ hist[r].seen[i].Total = 0)
        =>
            /\ lookup[r].pc = "done"
            /\ response[r].status = 404
            /\ response[r].text = lookup[r].passedID \o " not found"
            /\ response[r].json = EmptyAries
            /\ lookup[r].out = EmptyAries
            /\ Enrichments(r) = <<>>

C5_Witness ==
    \E r \in Reqs :
        /\ Len(hist[r].seen) = 2
        /\ \A i \in 1..2 : hist[r].seen[i].ok /\ hist[r].seen[i].Total = 0
        /\ hist[r].seen[1].Assets # <<>>
        /\ response[r].status = 404

\* C6: the only outcomes of a lookup are the 200 descriptor and the 404
\* message, and a lookup whose searches all failed ends with 404.  (An answer
\* that takes the match branch with an empty asset list ends with 500.)
C6_OnlyTwoOutcomes ==
    \A r \in Reqs :
        (lookup[r].kind = "lookup" /\ lookup[r].pc = "done") =>
            /\ response[r].status \in {200, 404}
            /\ (\A i \in 1..Len(hist[r].seen) : ~hist[r].seen[i].ok)
                    => response[r].status = 404

\* C7: once a search has yielded one asset, the lookup never ends as not
\* found: when it replies, it replies 200 with the two identifiers of that
\* asset, and a failed enrichment (error return or unparsable body) only
\* leaves the service URLs empty.
C7_EnrichFailureKeepsAsset ==
    \A r \in Reqs :
        (/\ lookup[r].kind = "lookup"
         /\ hist[r].seen # <<>>
         /\ OneAsset(hist[r].seen[Len(hist[r].seen)]))
        =>
            LET hit == hist[r].seen[Len(hist[r].seen)].Assets[1] IN
            /\ call[r].purpose = "enrich"
            /\ response[r].status \in {0, 200}
            /\ lookup[r].pc = "done" =>
                /\ response[r].status = 200
                /\ response[r].json.Identifiers = <<Itoa(hit.ID), hit.Filename>>
                /\ Len(response[r].json.ServiceURL) <= 2
                /\ (call[r].ret.err.kind # "none" \/ ~call[r].ret.str.valid)
                        => response[r].json.ServiceURL = <<>>

C7_Witness ==
    \E r \in Reqs :
        /\ lookup[r].pc = "done"
        /\ hist[r].seen # <<>>
        /\ OneAsset(hist[r].seen[Len(hist[r].seen)])
        /\ Len(hist[r].seen) = 2
        /\ call[r].ret.err.kind = "http"
        /\ response[r].status = 200
        /\ response[r].json.ServiceURL = <<>>

\* C8: the step that handles a search answer with total > 1 changes neither
\* the descriptor nor the hit count, asks for no enrichment, and goes on as
\* for total = 0: to the search of the next filter, or, after the last filter,
\* to the reply.
C8_AmbiguousSkipped ==
    [][\A r \in Reqs :
        (/\ lookup[r].pc = "ret"
         /\ call[r].purpose = "search"
         /\ call[r].ret.err.kind = "none"
         /\ call[r].ret.str.valid
         /\ call[r].ret.str.Total > 1
         /\ lookup'[r] # lookup[r])
        =>
            /\ lookup'[r].out = lookup[r].out
            /\ lookup'[r].hits = lookup[r].hits
            /\ hist'[r].requested \in
                    {hist[r].requested,
                     Append(hist[r].requested,
                            SearchURL(ifnF(lookup[r].passedID)))}
            /\ IF lookup[r].filter = 1
               THEN /\ lookup'[r].pc = "get"
                    /\ lookup'[r].filter = 2
                    /\ call'[r].purpose = "search"
                    /\ call'[r].tgtURL = SearchURL(ifnF(lookup[r].passedID))
                    /\ response'[r] = response[r]
               ELSE /\ lookup'[r].pc = "done"
                    /\ response'[r].status = IF lookup[r].hits = 0 THEN 404 ELSE 200
      ]_vars

C8_Witness ==
    \E r \in Reqs :
        /\ hist[r].seen # <<>>
        /\ hist[r].seen[1].ok
        /\ hist[r].seen[1].Total > 1
        /\ hist[r].seen[1].Assets # <<>>
        /\ lookup[r].filter = 2
        /\ lookup[r].pc = "get"
        /\ lookup[r].out = EmptyAries

\* C9 as claimed: a 401 on the first attempt triggers a login.
C9_UnauthorizedTriggersLogin ==
    \A r \in Reqs : Began(r, <<401>>) => call[r].logins >= 1

\* C9 as amended: a 401 on the first attempt is not an authorization failure
\* for the code.  It ends the call at once with an error carrying the body,
\* without login, retry or change of the store; only a 403 starts a login.
C9_UnauthorizedIsTerminal ==
    \A r \in Reqs :
        /\ Began(r, <<401>>) =>
            /\ Returned(r)
            /\ call[r].statuses = <<401>>
            /\ call[r].logins = 0
            /\ call[r].sends = 1
            /\ call[r].ret = [str |-> EmptyStr, err |-> Err("http", call[r].rcvd)]
            /\ loginCookies = call[r].entryCookies
        /\ Began(r, <<403>>) => call[r].logins >= 1

C9_Witness ==
    \E r \in Reqs :
        /\ call[r].statuses = <<401>>
        /\ lookup[r].pc = "ret"
        /\ call[r].ret.err.msg = EmptyObj

\* C10 as claimed: a health check performs no login and leaves loginCookies
\* as it found it, whatever the upstream answers.
C10_HealthReadOnly ==
    \A r \in Reqs :
        lookup[r].kind = "health" =>
            call[r].logins = 0 /\ loginCookies = call[r].entryCookies

\* C10 as amended: a health check performs no login and leaves loginCookies
\* unchanged unless its query was answered 403; the store changes only
\* through a login of the probe, which stores that login's cookies; the
\* handler always replies 200 with the reachability flag.
C10_HealthReadOnlyUnless403 ==
    \A r \in Reqs :
        lookup[r].kind = "health" =>
            /\ (\A i \in 1..Len(call[r].statuses) : call[r].statuses[i] # 403)
                    => call[r].logins = 0 /\ loginCookies = call[r].entryCookies
            /\ loginCookies # call[r].entryCookies
                    => call[r].logins >= 1 /\ loginCookies = call[r].gotCookies
            /\ lookup[r].pc = "done" =>
                    /\ response[r].status = 200
                    /\ response[r].hc = IF call[r].ret.err.kind = "none"
                                        THEN "true" ELSE "false"

C10_Witness ==
    \E r \in Reqs :
        /\ lookup[r].kind = "health"
        /\ lookup[r].pc = "done"
        /\ call[r].statuses = <<500>>
        /\ call[r].logins = 0
        /\ response[r].hc = "false"

----------------------------------------------------------------------------
(* C11..C20 *)

\* C11: no request is handled unless the startup login has completed without
\* error: while main is in the login, and after it has exited on a login
\* error, every handler is idle and nothing is answered; an exited process
\* stays exited; and the step that starts serving is the login's store of its
\* response cookies.
C11_NoServiceBeforeLogin ==
    /\ [](\A r \in Reqs :
            (lookup[r] # IdleFrame \/ call[r] # NoCall \/ response[r] # NoResponse)
                => mainPc = "serving")
    /\ [](mainPc # "serving" => loginCookies = <<>>)
    /\ [][mainPc = "exited" => mainPc' = "exited"]_vars
    /\ [][mainPc' = "serving" => mainPc \in {"login", "serving"}]_vars

C11_Witness ==
    \E r \in Reqs :
        /\ mainPc = "serving"
        /\ lookup[r].pc = "done"
        /\ call[r].entryCookies = <<"s1">>
        /\ call[r].logins = 0
        /\ response[r].status = 200

\* No goroutine is between the two stores of a slice assignment.
NoStoreInProgress ==
    \A r \in Reqs : lookup[r].pc \notin {"store_len", "store_ptr"}

\* The store part of C12: once no store is in progress, loginCookies is the
\* cookie list of one login response.
StoreIsOneLoginResponse ==
    NoStoreInProgress => loginCookies \in CookieSets

\* C12: with requests refreshing the session concurrently, once no store is
\* in progress loginCookies is exactly the cookie list of one login response,
\* and each call has performed at most one login and one retry.  (Each call
\* logs in again on every 403, and the unsynchronised slice stores can leave
\* the array of one login with the length of another.)
C12_ConcurrentRefresh ==
    /\ StoreIsOneLoginResponse
    /\ \A r \in Reqs : call[r].logins <= 1 /\ call[r].sends <= 2

C14_LoginReplacesStore ==
    [][/\ \A r \in Reqs :
            /\ (lookup[r].pc = "login" /\ lookup'[r].pc = "get") =>
                    /\ loginCookies' = call'[r].gotCookies
                    /\ call'[r].reqCookies = call'[r].gotCookies
            /\ (lookup[r].pc = "login" /\ lookup'[r].pc = "ret") =>
                    /\ loginCookies' = loginCookies
                    /\ call'[r].ret = [str |-> EmptyStr, err |-> Err("login", EmptyStr)]
       /\ (mainPc = "login" /\ mainPc' = "exited") => loginCookies' = loginCookies
      ]_vars

C14_Witness ==
    \E r \in Reqs :
        /\ lookup[r].pc = "get"
        /\ call[r].logins = 1
        /\ call[r].loginStatus = 401
        /\ call[r].entryCookies = <<"s2", "t2">>
        /\ call[r].gotCookies = <<"s1">>
        /\ loginCookies = <<"s1">>

\* The last status the call of r received.
LastStatus(r) == call[r].statuses[Len(call[r].statuses)]

\* How many of the statuses the call of r received were st.
Count(r, st) == Cardinality({i \in 1..Len(call[r].statuses) : call[r].statuses[i] = st})

\* C15: a response with status 500 (neither 2xx nor an authorization failure)
\* ends the call: it has returned an error carrying the body just received,
\* it logged in only for the 403s before, it sent one request per status
\* received (no retry after the 500), and loginCookies is as the call found
\* it, or as its last login before the 500 left it.
C15_OtherStatusIsTerminal ==
    \A r \in Reqs :
        (call[r].statuses # <<>> /\ LastStatus(r) = 500) =>
            /\ Returned(r)
            /\ call[r].ret = [str |-> EmptyStr, err |-> Err("http", call[r].rcvd)]
            /\ call[r].logins = Count(r, 403)
            /\ call[r].sends = Len(call[r].statuses)
            /\ loginCookies = IF call[r].logins = 0 THEN call[r].entryCookies
                                                   ELSE call[r].gotCookies

C15_Witness ==
    \E r \in Reqs :
        /\ call[r].statuses = <<403, 500>>
        /\ lookup[r].pc = "ret"
        /\ call[r].logins = 1
        /\ call[r].ret.err = Err("http", BadDoc)
        /\ call[r].entryCookies = <<"s1">>
        /\ loginCookies = <<"s2", "t2">>

\* C16 as claimed: a call whose last response had a 2xx status returned the
\* body as a success value.
C16_Every2xxSucceeds ==
    \A r \in Reqs :
        (Returned(r) /\ call[r].statuses # <<>> /\ LastStatus(r) \in {200, 201}) =>
            call[r].ret = [str |-> call[r].rcvd, err |-> NoErr]

\* C16 as amended: only a 200 returns the body as a success value; a 201 ends
\* the call with an error carrying the body, without login or retry.
C16_Only200Succeeds ==
    \A r \in Reqs :
        (Returned(r) /\ call[r].statuses # <<>>) =>
            /\ LastStatus(r) = 200 => call[r].ret = [str |-> call[r].rcvd, err |-> NoErr]
            /\ LastStatus(r) = 201 =>
                    /\ call[r].ret = [str |-> EmptyStr, err |-> Err("http", call[r].rcvd)]
                    /\ call[r].logins = Count(r, 403)
                    /\ call[r].sends = Len(call[r].statuses)

C16_Witness ==
    \E r \in Reqs :
        /\ call[r].statuses = <<201>>
        /\ lookup[r].pc = "ret"
        /\ call[r].ret.err = Err("http", EmptyObj)

\* C18: every 200 descriptor of a lookup is built from the first asset of the
\* last search answer, which is not empty: its identifiers are the decimal
\* string of the asset's ID, then its filename; its service URLs are the
\* download URL tagged image-download, then the presentation URL tagged
\* iiif-presentation, each only when the representation answer parsed and the
\* field is not empty, and none when the representation call failed.
C18_Descriptor ==
    \A r \in Reqs :
        (lookup[r].kind = "lookup" /\ lookup[r].pc = "done" /\ response[r].status = 200) =>
            /\ hist[r].seen # <<>>
            /\ hist[r].seen[Len(hist[r].seen)].Assets # <<>>
            /\ call[r].purpose = "enrich"
            /\ LET hit == hist[r].seen[Len(hist[r].seen)].Assets[1]
                   rep == call[r].ret.str
                   ok == call[r].ret.err.kind = "none" /\ rep.valid
                   dl == [URL |-> "https://img/7", Protocol |-> "image-download"]
                   pres == [URL |-> "https://iiif/7", Protocol |-> "iiif-presentation"]
               IN
                /\ hit.ID = 7 => response[r].json.Identifiers = <<"7", "7_0004.tif">>
                /\ hit.ID = 230 => response[r].json.Identifiers = <<"230", "230.tif">>
                /\ hit.ID \in {7, 230}
                /\ response[r].json.ServiceURL =
                        CASE ~ok -> <<>>
                          [] ok /\ rep.URL # "" /\ rep.IIIF # "" -> <<dl, pres>>
                          [] ok /\ rep.URL # "" /\ rep.IIIF = "" -> <<dl>>
                          [] ok /\ rep.URL = "" /\ rep.IIIF # "" -> <<pres>>
                          [] ok /\ rep.URL = "" /\ rep.IIIF = "" -> <<>>
                /\ rep.URL \in {"", "https://img/7"} /\ rep.IIIF \in {"", "https://iiif/7"}

C18_Witness ==
    \E r \in Reqs :
        /\ lookup[r].kind = "lookup"
        /\ lookup[r].pc = "done"
        /\ response[r].status = 200
        /\ response[r].json.Identifiers = <<"230", "230.tif">>
        /\ Len(response[r].json.ServiceURL) = 2
        /\ response[r].json.ServiceURL[1].Protocol = "image-download"

\* C19: the step in which a request of the call of r ends without an HTTP
\* response (transport failure or timeout) makes the call return at once, with
\* the transport error and no body; it performs no login, sends nothing again
\* and leaves loginCookies unchanged.
C19_TransportFailureIsTerminal ==
    [][\A r \in Reqs :
        (/\ lookup[r].pc = "get"
         /\ lookup'[r] # lookup[r]
         /\ Len(call[r].statuses) < MaxCount
         /\ call'[r].statuses = call[r].statuses) =>
            /\ lookup'[r].pc = "ret"
            /\ call'[r].ret = [str |-> EmptyStr, err |-> Err("transport", EmptyStr)]
            /\ call'[r].logins = call[r].logins
            /\ call'[r].sends = call[r].sends
            /\ loginCookies' = loginCookies
      ]_vars

C19_Witness ==
    \E r \in Reqs :
        /\ lookup[r].pc = "ret"
        /\ call[r].ret.err.kind = "transport"
        /\ call[r].statuses = <<403>>
        /\ call[r].logins = 1
        /\ call[r].sends = 2
        /\ loginCookies = call[r].gotCookies

\* C17: every lookup that has started eventually produces its response,
\* whatever the upstream answers, given that every HTTP request completes or
\* times out.
C17_LookupResponds ==
    \A r \in Reqs : (lookup[r].kind = "lookup") ~> (lookup[r].pc = "done")

\* C20: whenever a lookup took the match branch (a parsed search answer
\* whose total is neither 0 nor more than 1), the asset list it read the
\* first element of was not empty, and the lookup ends in 200 or 404.
C20_MatchReadsAnAsset ==
    \A r \in Reqs :
        lookup[r].kind = "lookup" =>
            /\ \A i \in 1..Len(hist[r].seen) :
                    (hist[r].seen[i].ok /\ ~SkipTotal(hist[r].seen[i].Total))
                        => hist[r].seen[i].Assets # <<>>
            /\ lookup[r].pc = "done" => response[r].status \in {200, 404}

====
